---- MODULE Spec2Model ----
(***************************************************************************)
(* The congestion-zone ETL pipeline: the two loaders of the repository     *)
(* (load_data of data_loader.py and run_etl_pipeline of data/etl.py), the  *)
(* four tables they write and the daily aggregate recomputation.           *)
(*                                                                         *)
(* Tables are sequences: the id of a row is its position (ids are          *)
(* assigned by auto-increment and no dimension or fact row is ever         *)
(* deleted).  Raw CSV cells are strings and are parsed as the code parses  *)
(* them.  An optional value (NaN / NaT) is a sequence of length 0 or 1.    *)
(***************************************************************************)
EXTENDS Integers, Sequences, FiniteSets, TLC

-----------------------------------------------------------------------------
(* Bounds *)

\* number of pipeline runs in one behaviour
MaxRuns == 2

\* rows per commit of load_data (1000 in the source, scaled down)
batch_size == 2

\* rows per to_sql call of process_congestion_entries (10000 in the source,
\* scaled down)
chunk_size == 2

\* the largest page of get_congestion_entries (10000 in the source, scaled
\* down)
limit_cap == 3

\* the page size of a request without a limit (1000 in the source, scaled
\* down)
default_limit == 2

-----------------------------------------------------------------------------
(* The static alias table *)

\* the names of the alias table, in the insertion order of the dict
entry_point_names ==
  << "Brooklyn", "Queens", "Queens Midtown Tunnel", "West Side Highway",
     "West 60th St", "Manhattan Bridge", "Lincoln Tunnel", "Holland Tunnel",
     "FDR Drive", "East 60th St", "New Jersey", "Brooklyn Battery Tunnel",
     "Battery Tunnel", "Hugh L. Carey Tunnel", "Williamsburg Bridge",
     "Brooklyn Bridge", "Manhattan", "Queensboro Bridge", "Queens Tunnel",
     "Midtown Tunnel", "Holland", "Brooklyn Tunnel", "Williamsburg" >>

\* name -> (latitude, longitude), in units of 1e-4 degree
entry_points ==
  [n \in {entry_point_names[k] : k \in DOMAIN entry_point_names} |->
    CASE n \in {"Brooklyn", "Brooklyn Bridge"}            -> <<407061, -739969>>
      [] n \in {"Queens", "Queensboro Bridge"}            -> <<407570, -739543>>
      [] n \in {"Queens Midtown Tunnel", "Queens Tunnel",
                "Midtown Tunnel"}                         -> <<407440, -739713>>
      [] n = "West Side Highway"                          -> <<407713, -739916>>
      [] n = "West 60th St"                               -> <<407690, -739851>>
      [] n \in {"Manhattan Bridge", "Manhattan"}          -> <<407075, -739903>>
      [] n \in {"Lincoln Tunnel", "New Jersey"}           -> <<407608, -740021>>
      [] n \in {"Holland Tunnel", "Holland"}              -> <<407256, -740119>>
      [] n \in {"FDR Drive", "East 60th St"}              -> <<407625, -739595>>
      [] n \in {"Brooklyn Battery Tunnel", "Battery Tunnel",
                "Hugh L. Carey Tunnel", "Brooklyn Tunnel"} -> <<407001, -740145>>
      [] n \in {"Williamsburg Bridge", "Williamsburg"}    -> <<407131, -739722>> ]

-----------------------------------------------------------------------------
(* Parsing of raw cells *)

RECURSIVE lstrip(_)
lstrip(s) ==
  IF Len(s) > 0 /\ SubSeq(s, 1, 1) = " " THEN lstrip(SubSeq(s, 2, Len(s))) ELSE s

RECURSIVE rstrip(_)
rstrip(s) ==
  IF Len(s) > 0 /\ SubSeq(s, Len(s), Len(s)) = " "
  THEN rstrip(SubSeq(s, 1, Len(s) - 1)) ELSE s

\* only the leading blanks are removed
strip_LeftOnly(s) == lstrip(s)

\* str.strip()
strip(s) == rstrip(lstrip(s))

\* astype(str) of a cell: an empty cell is read as NaN and prints as "nan"
astype_str(s) == IF s = "" THEN "nan" ELSE s

Digits == <<"0", "1", "2", "3", "4", "5", "6", "7", "8", "9">>

IsDigit(c) == \E d \in DOMAIN Digits : Digits[d] = c

DigitVal(c) == (CHOOSE d \in DOMAIN Digits : Digits[d] = c) - 1

IsDigits(s) == Len(s) > 0 /\ \A k \in 1..Len(s) : IsDigit(SubSeq(s, k, k))

RECURSIVE ParseNat(_)
ParseNat(s) ==
  IF Len(s) = 0 THEN 0
  ELSE 10 * ParseNat(SubSeq(s, 1, Len(s) - 1)) + DigitVal(SubSeq(s, Len(s), Len(s)))

\* a cell that is not a number reads as 0 instead of NaN
to_numeric_ZeroOnError(s) ==
  LET t == strip(s) IN
  IF IsDigits(t) THEN <<ParseNat(t)>>
  ELSE IF Len(t) > 1 /\ SubSeq(t, 1, 1) = "-" /\ IsDigits(SubSeq(t, 2, Len(t)))
       THEN <<0 - ParseNat(SubSeq(t, 2, Len(t)))>>
       ELSE <<0>>

\* pd.to_numeric(errors='coerce') of one cell: <<v>> or <<>> (NaN)
to_numeric(s) ==
  LET t == strip(s) IN
  IF IsDigits(t) THEN <<ParseNat(t)>>
  ELSE IF Len(t) > 1 /\ SubSeq(t, 1, 1) = "-" /\ IsDigits(SubSeq(t, 2, Len(t)))
       THEN <<0 - ParseNat(SubSeq(t, 2, Len(t)))>>
       ELSE <<>>

DaysInMonth(y, m) ==
  IF m \in {4, 6, 9, 11} THEN 30
  ELSE IF m = 2 THEN (IF y % 4 = 0 /\ (y % 100 # 0 \/ y % 400 = 0) THEN 29 ELSE 28)
       ELSE 31

\* pd.to_datetime(errors='coerce') of one cell "YYYY-MM-DD HH:MM":
\* <<timestamp>> or <<>> (NaT)
to_datetime(s) ==
  IF /\ Len(s) = 16
     /\ SubSeq(s, 5, 5) = "-" /\ SubSeq(s, 8, 8) = "-"
     /\ SubSeq(s, 11, 11) = " " /\ SubSeq(s, 14, 14) = ":"
     /\ IsDigits(SubSeq(s, 1, 4)) /\ IsDigits(SubSeq(s, 6, 7))
     /\ IsDigits(SubSeq(s, 9, 10)) /\ IsDigits(SubSeq(s, 12, 13))
     /\ IsDigits(SubSeq(s, 15, 16))
  THEN LET y  == ParseNat(SubSeq(s, 1, 4))
           mo == ParseNat(SubSeq(s, 6, 7))
           d  == ParseNat(SubSeq(s, 9, 10))
           h  == ParseNat(SubSeq(s, 12, 13))
           mi == ParseNat(SubSeq(s, 15, 16))
       IN IF /\ mo \in 1..12 /\ d \in 1..DaysInMonth(y, mo)
             /\ h \in 0..23 /\ mi \in 0..59
          THEN <<[year |-> y, month |-> mo, day |-> d, hour |-> h, minute |-> mi]>>
          ELSE <<>>
  ELSE <<>>

\* DATE(timestamp) / Series.dt.date
DATE(ts) == <<ts.year, ts.month, ts.day>>

\* HOUR(timestamp) / Series.dt.hour
HOUR(ts) == ts.hour

-----------------------------------------------------------------------------
(* Input files *)

Columns == {"Toll 10 Minute Block", "CRZ Entries", "Excluded Roadway Entries",
            "Detection Region", "Vehicle Class", "Time Period"}

RawRow(b, e, x, r, v, p) ==
  [block |-> b, entries |-> e, excluded |-> x, region |-> r, vclass |-> v, period |-> p]

\* the two facts of one key, the smaller hour second
FileScenario ==
  [exists |-> TRUE, columns |-> Columns,
   rows |-> << RawRow("2025-03-29 09:00", "50", "0", "Lincoln Tunnel", "Cars", "AM"),
               RawRow("2025-03-29 08:10", "100", "", " Lincoln Tunnel ", "Cars", "AM") >>]

\* malformed and valid rows mixed: a padded label on a row stamped at
\* midnight, and at the end a label in the wrong case and negative counts
FileMixed ==
  [exists |-> TRUE, columns |-> Columns,
   rows |-> << RawRow("not a date", "10", "1", "Brooklyn", "Cars", "AM"),
               RawRow("2025-03-29 08:00", "abc", "1", "Brooklyn", "Cars", "AM"),
               RawRow("2025-03-29 08:00", "7", "x", "Nowhere", "Cars", "AM"),
               RawRow("2025-03-30 00:00", "5", "2", "  Holland", "Trucks", "Overnight"),
               RawRow("2025-03-29 08:00", "3", "0", "   ", "Cars", "AM"),
               RawRow("2025-03-29 08:20", "9", "0", "lincoln tunnel", "Cars", "AM"),
               RawRow("2025-03-29 08:20", "-4", "-1", "Queens", "Cars", "AM") >>]

\* other data: another vehicle class (once with a leading blank), one hour
\* shared by three rows, two entry points at the same coordinates
FileTrucks ==
  [exists |-> TRUE, columns |-> Columns,
   rows |-> << RawRow("2025-03-29 08:30", "20", "0", "Brooklyn", "Trucks", "AM"),
               RawRow("2025-03-29 08:40", "30", "0", "Brooklyn", "Trucks", "AM"),
               RawRow("2025-03-29 08:50", "40", "0", "Brooklyn Bridge", " Trucks", "AM") >>]

FileAbsent == [exists |-> FALSE, columns |-> {}, rows |-> <<>>]

\* the entry-count column is missing
FileNoCount ==
  [exists |-> TRUE, columns |-> Columns \ {"CRZ Entries"},
   rows |-> << RawRow("2025-03-29 08:10", "", "0", "Brooklyn", "Cars", "AM") >>]

\* the two optional columns are missing
FileNoOptional ==
  [exists |-> TRUE, columns |-> Columns \ {"Excluded Roadway Entries", "Time Period"},
   rows |-> << RawRow("2025-03-29 08:10", "15", "", "Queens", "Cars", "") >>]

\* the vehicle-class column is missing
FileNoClass ==
  [exists |-> TRUE, columns |-> Columns \ {"Vehicle Class"},
   rows |-> << RawRow("2025-03-29 08:10", "12", "0", "Queens", "", "AM") >>]

Files == {FileScenario, FileMixed, FileTrucks, FileAbsent, FileNoCount, FileNoOptional,
          FileNoClass}

Programs == {"load_data", "run_etl_pipeline"}

-----------------------------------------------------------------------------
(* State *)

VARIABLES
  dialect,            \* the database behind DATABASE_URI: "sqlite" or "mysql"
  entry_points_tbl,   \* table entry_points
  vehicle_classes,    \* table vehicle_classes
  congestion_entries, \* table congestion_entries
  daily_aggregates,   \* table daily_aggregates (a set of rows)
  pc,                 \* stage of the current run
  prog,               \* the program that runs
  file,               \* its input file
  df,                 \* the data frame
  entry_point_map,    \* name -> id snapshot
  vehicle_class_map,  \* name -> id snapshot
  entries_df,         \* rows prepared by process_congestion_entries
  i,                  \* offset of the next batch
  entries_added,      \* counter of load_data
  failCause,          \* the exception that ended the run (type "" if none)
  runs,               \* number of runs started
  aggBefore,          \* daily_aggregates when the recomputation began
  aggOutcome,         \* outcome of the last recomputation of this run
  prevRun,            \* the previous run and the tables it left
  response,           \* the answer to the last heatmap request (status 0 if none)
  reported,           \* the last count of added entries load_data printed: <<n>> or <<>>
  session,            \* the database session of the run
  entries_responses   \* the answers to the entries requests since the last run

vars == << dialect, entry_points_tbl, vehicle_classes, congestion_entries,
           daily_aggregates, pc, prog, file, df, entry_point_map,
           vehicle_class_map, entries_df, i, entries_added, failCause, runs,
           aggBefore, aggOutcome, prevRun, response, reported, session,
           entries_responses >>

tables == << entry_points_tbl, vehicle_classes, congestion_entries, daily_aggregates >>

locals == << df, entry_point_map, vehicle_class_map, entries_df, i, entries_added >>

NoRun == [prog |-> "", file |-> FileAbsent, pc |-> "START", aggOutcome |-> "",
          entry_points_tbl |-> <<>>, vehicle_classes |-> <<>>,
          congestion_entries |-> <<>>, daily_aggregates |-> {}]

EmptyMap == [n \in {} |-> 0]

\* no session: open says whether the session is open, pending counts the
\* rows added to it and not committed
NoSession == [open |-> FALSE, pending |-> 0]

\* no request answered since the run began
NoResponse == [status |-> 0, date |-> <<>>, interval |-> "", data |-> <<>>,
               intervals |-> <<>>]

\* no exception; key is the column a KeyError names
NoFailure == [type |-> "", key |-> ""]

Init ==
  /\ dialect \in {"sqlite", "mysql"}
  /\ entry_points_tbl = <<>>
  /\ vehicle_classes = <<>>
  /\ congestion_entries = <<>>
  /\ daily_aggregates = {}
  /\ pc = "START"
  /\ prog = ""
  /\ file = FileAbsent
  /\ df = <<>>
  /\ entry_point_map = EmptyMap
  /\ vehicle_class_map = EmptyMap
  /\ entries_df = <<>>
  /\ i = 0
  /\ entries_added = 0
  /\ failCause = NoFailure
  /\ runs = 0
  /\ aggBefore = {}
  /\ aggOutcome = ""
  /\ prevRun = NoRun
  /\ response = NoResponse
  /\ reported = <<>>
  /\ session = NoSession
  /\ entries_responses = <<>>

-----------------------------------------------------------------------------
(* Helpers on sequences and tables *)

Range(s) == {s[k] : k \in DOMAIN s}

Min(a, b) == IF a < b THEN a ELSE b

SetMax(S) == CHOOSE m \in S : \A x \in S : x <= m

\* Series.unique(): the distinct values in order of first appearance
RECURSIVE unique(_)
unique(s) ==
  IF s = <<>> THEN <<>>
  ELSE LET u == unique(SubSeq(s, 1, Len(s) - 1))
           x == s[Len(s)]
       IN IF x \in Range(u) THEN u ELSE Append(u, x)

\* the query by name that finds no row
HasName_NeverFound(tbl, n) == FALSE

HasName(tbl, n) == \E k \in DOMAIN tbl : tbl[k].name = n

\* {row.name: row.id for row in table}: a later row overrides an earlier one
NameToId(tbl) ==
  [n \in {tbl[k].name : k \in DOMAIN tbl} |->
     SetMax({k \in DOMAIN tbl : tbl[k].name = n})]

EntryPointRow(n) ==
  [name |-> n, latitude |-> entry_points[n][1], longitude |-> entry_points[n][2],
   description |-> <<"Entry point at ", n>>]

VehicleClassRow(n) == [name |-> n, description |-> <<"Vehicle class: ", n>>]

\* the new row takes the first place and moves the others
session_add_First(tbl, row) == <<row>> \o tbl

\* session.add(row) of a new row: it gets the next id
session_add(tbl, row) == Append(tbl, row)

\* for name in entry_points: query by name, add the row if there is none
RECURSIVE AddMissingEntryPoints(_, _)
AddMissingEntryPoints(tbl, names) ==
  IF names = <<>> THEN tbl
  ELSE LET t == AddMissingEntryPoints(tbl, SubSeq(names, 1, Len(names) - 1))
           n == names[Len(names)]
       IN IF HasName(t, n) THEN t ELSE session_add(t, EntryPointRow(n))

\* for vehicle_class in unique(): query by name, add the row if there is none
RECURSIVE AddMissingVehicleClasses(_, _)
AddMissingVehicleClasses(tbl, names) ==
  IF names = <<>> THEN tbl
  ELSE LET t == AddMissingVehicleClasses(tbl, SubSeq(names, 1, Len(names) - 1))
           n == names[Len(names)]
       IN IF HasName(t, n) THEN t ELSE session_add(t, VehicleClassRow(n))

\* the missing value of a name that the map does not hold
NULL == 0

-----------------------------------------------------------------------------
(* Start of a run *)

Fail(cause) ==
  /\ pc' = "FAILED"
  /\ failCause' = [type |-> cause, key |-> ""]

\* the first column of the access order that the file does not have
FirstMissing(order, cols) ==
  order[CHOOSE k \in DOMAIN order :
          order[k] \notin cols /\ \A j \in 1..(k - 1) : order[j] \in cols]

\* df[column] (or the explicit check of load_data) on a column the file
\* does not have
FailKey(column) ==
  /\ pc' = "FAILED"
  /\ failCause' = [type |-> "KeyError", key |-> column]

\* the session is left open
session_close_Leak(s) == s

\* session.close(): the session is released, what it holds uncommitted is
\* discarded
session_close(s) == [open |-> FALSE, pending |-> 0]

\* the finally branch of both programs, at the end of the step that ends
\* the run
Finally ==
  session' = IF pc' \in {"DONE", "FAILED"} THEN session_close(session) ELSE session

StartRun(p, f) ==
  /\ pc \in {"START", "DONE", "FAILED"}
  /\ runs < MaxRuns
  /\ prevRun' = [prog |-> prog, file |-> file, pc |-> pc, aggOutcome |-> aggOutcome,
                 entry_points_tbl |-> entry_points_tbl,
                 vehicle_classes |-> vehicle_classes,
                 congestion_entries |-> congestion_entries,
                 daily_aggregates |-> daily_aggregates]
  /\ runs' = runs + 1
  /\ prog' = p
  /\ file' = f
  /\ pc' = "LOAD_RAW"
  /\ df' = <<>>
  /\ entry_point_map' = EmptyMap
  /\ vehicle_class_map' = EmptyMap
  /\ entries_df' = <<>>
  /\ i' = 0
  /\ entries_added' = 0
  /\ failCause' = NoFailure
  /\ aggOutcome' = ""
  /\ response' = NoResponse
  /\ reported' = <<>>
  /\ session' = [open |-> TRUE, pending |-> 0]
  /\ entries_responses' = <<>>
  /\ UNCHANGED << dialect, tables, aggBefore >>

\* pd.read_csv: a missing file raises, in both programs
LoadRaw ==
  /\ pc = "LOAD_RAW"
  /\ IF file.exists
     THEN /\ df' = file.rows
          /\ pc' = "NORMALIZE"
          /\ UNCHANGED failCause
     ELSE /\ Fail("FileNotFoundError")
          /\ UNCHANGED df
  /\ UNCHANGED << dialect, tables, prog, file, entry_point_map, vehicle_class_map,
                  entries_df, i, entries_added, runs, aggBefore, aggOutcome, prevRun, response, entries_responses >>
  /\ UNCHANGED reported
  /\ Finally

-----------------------------------------------------------------------------
(* Normalisation *)

\* the value of a column that the file does not have
None == "None"

fillna0(v) == IF v = <<>> THEN 0 ELSE v[1]

DaysBeforeMonth(y, m) ==
  LET RECURSIVE acc(_)
      acc(k) == IF k = 0 THEN 0 ELSE acc(k - 1) + DaysInMonth(y, k)
  IN acc(m - 1)

\* date.toordinal()
toordinal(d) ==
  LET y == d[1] - 1
  IN 365 * y + (y \div 4) - (y \div 100) + (y \div 400) + DaysBeforeMonth(d[1], d[2]) + d[3]

DayNames == <<"Monday", "Tuesday", "Wednesday", "Thursday", "Friday",
              "Saturday", "Sunday">>

\* the names taken one day late
day_name_Shifted(ts) == DayNames[((toordinal(DATE(ts)) + 5) % 7) + 1]

\* Series.dt.day_name()
day_name(ts) == DayNames[((toordinal(DATE(ts)) + 6) % 7) + 1]

\* rows that survive the two dropna calls
Parseable(r) == to_datetime(r.block) # <<>> /\ to_numeric(r.entries) # <<>>

\* load_data, step 3, on one surviving row
LoaderRow(r, cols) ==
  [datetime |-> to_datetime(r.block)[1],
   entries  |-> to_numeric(r.entries)[1],
   excluded |-> IF "Excluded Roadway Entries" \in cols
                THEN fillna0(to_numeric(r.excluded)) ELSE 0,
   region   |-> strip(astype_str(r.region)),
   vclass   |-> strip(astype_str(r.vclass)),
   period   |-> IF "Time Period" \in cols THEN r.period ELSE None]

LoaderRequired == {"Toll 10 Minute Block", "CRZ Entries", "Detection Region",
                   "Vehicle Class"}

\* the order in which load_data tests them
LoaderOrder == <<"Toll 10 Minute Block", "CRZ Entries", "Detection Region",
                 "Vehicle Class">>

\* load_data, step 3, on the rows of a file: the rows that do not parse are
\* dropped, the others converted
LoaderFrame(f) ==
  LET kept == SelectSeq(f.rows, Parseable)
  IN [k \in DOMAIN kept |-> LoaderRow(kept[k], f.columns)]

\* the frames of the input files, each computed once
LoaderFrames == [f \in Files |-> LoaderFrame(f)]

\* load_data, step 3: a missing required column raises KeyError
LoaderNormalize ==
  /\ pc = "NORMALIZE"
  /\ prog = "load_data"
  /\ IF LoaderRequired \subseteq file.columns
     THEN /\ df' = LoaderFrames[file]
          /\ pc' = "RESOLVE_REFS"
          /\ UNCHANGED failCause
     ELSE /\ FailKey(FirstMissing(LoaderOrder, file.columns))
          /\ UNCHANGED df
  /\ UNCHANGED << dialect, tables, prog, file, entry_point_map, vehicle_class_map,
                  entries_df, i, entries_added, runs, aggBefore, aggOutcome, prevRun, response, entries_responses >>
  /\ UNCHANGED reported
  /\ Finally

\* preprocess_data on one surviving row; the vehicle class and the time
\* period are not touched
EtlRow(r) ==
  LET ts == to_datetime(r.block)[1]
  IN [datetime    |-> ts,
      date        |-> DATE(ts),
      hour        |-> HOUR(ts),
      day_of_week |-> day_name(ts),
      entries     |-> to_numeric(r.entries)[1],
      excluded    |-> fillna0(to_numeric(r.excluded)),
      region      |-> strip(r.region),
      vclass      |-> r.vclass,
      period      |-> r.period]

\* the columns preprocess_data indexes
EtlRequired == {"Toll 10 Minute Block", "CRZ Entries", "Excluded Roadway Entries",
                "Detection Region"}

\* the order in which preprocess_data indexes them
EtlOrder == <<"Toll 10 Minute Block", "CRZ Entries", "Excluded Roadway Entries",
              "Detection Region">>

\* preprocess_data on the rows of a file
EtlFrame(f) ==
  LET kept == SelectSeq(f.rows, Parseable)
  IN [k \in DOMAIN kept |-> EtlRow(kept[k])]

\* the frames of the input files, each computed once
EtlFrames == [f \in Files |-> EtlFrame(f)]

\* preprocess_data: indexing a missing column raises KeyError
preprocess_data ==
  /\ pc = "NORMALIZE"
  /\ prog = "run_etl_pipeline"
  /\ IF EtlRequired \subseteq file.columns
     THEN /\ df' = EtlFrames[file]
          /\ pc' = "POPULATE_ENTRY_POINTS"
          /\ UNCHANGED failCause
     ELSE /\ FailKey(FirstMissing(EtlOrder, file.columns))
          /\ UNCHANGED df
  /\ UNCHANGED << dialect, tables, prog, file, entry_point_map, vehicle_class_map,
                  entries_df, i, entries_added, runs, aggBefore, aggOutcome, prevRun, response, entries_responses >>
  /\ UNCHANGED reported
  /\ Finally

-----------------------------------------------------------------------------
(* Reference data *)

\* load_data, steps 4 to 6: both upserts, one commit, the two lookup maps.
\* ok = FALSE: the storage rejects the commit and the session is rolled back.
LoaderResolveRefs(ok) ==
  /\ pc = "RESOLVE_REFS"
  /\ prog = "load_data"
  /\ IF ok
     THEN LET eps == AddMissingEntryPoints(entry_points_tbl, entry_point_names)
              vcs == AddMissingVehicleClasses(vehicle_classes,
                       unique([k \in DOMAIN df |-> df[k].vclass]))
          IN /\ entry_points_tbl' = eps
             /\ vehicle_classes' = vcs
             /\ entry_point_map' = NameToId(eps)
             /\ vehicle_class_map' = NameToId(vcs)
             /\ pc' = IF Len(df) = 0 THEN "DONE" ELSE "BATCH_INSERT"
             /\ reported' = IF Len(df) = 0 THEN <<entries_added>> ELSE reported
             /\ UNCHANGED failCause
     ELSE /\ Fail("StorageError")
          /\ UNCHANGED << entry_points_tbl, vehicle_classes, entry_point_map,
                          vehicle_class_map, reported >>
  /\ i' = 0
  /\ UNCHANGED << dialect, congestion_entries, daily_aggregates, prog, file, df,
                  entries_df, entries_added, runs, aggBefore, aggOutcome, prevRun, response, entries_responses >>
  /\ Finally

\* to_sql(if_exists='replace'): the table is dropped and written anew
to_sql_replace(tbl, rows) == rows

\* DataFrame.to_sql(if_exists='append')
to_sql_append(tbl, rows) == tbl \o rows

\* populate_entry_points: skipped when the table holds any row
populate_entry_points(ok) ==
  /\ pc = "POPULATE_ENTRY_POINTS"
  /\ prog = "run_etl_pipeline"
  /\ IF ok
     THEN /\ entry_points_tbl' =
               IF Len(entry_points_tbl) > 0 THEN entry_points_tbl
               ELSE to_sql_append(entry_points_tbl,
                      [k \in DOMAIN entry_point_names |-> EntryPointRow(entry_point_names[k])])
          /\ pc' = "POPULATE_VEHICLE_CLASSES"
          /\ UNCHANGED failCause
     ELSE /\ Fail("StorageError")
          /\ UNCHANGED entry_points_tbl
  /\ UNCHANGED << dialect, vehicle_classes, congestion_entries, daily_aggregates,
                  prog, file, locals, runs, aggBefore, aggOutcome, prevRun, response, entries_responses >>
  /\ UNCHANGED reported
  /\ Finally

\* populate_vehicle_classes: skipped when the table holds any row; otherwise
\* the column is indexed (KeyError when the file lacks it) and one row per
\* distinct value is appended
populate_vehicle_classes(ok) ==
  /\ pc = "POPULATE_VEHICLE_CLASSES"
  /\ prog = "run_etl_pipeline"
  /\ IF ~ok
     THEN /\ Fail("StorageError")
          /\ UNCHANGED vehicle_classes
     ELSE IF Len(vehicle_classes) > 0
     THEN /\ pc' = "PREPARE_ENTRIES"
          /\ UNCHANGED << vehicle_classes, failCause >>
     ELSE IF "Vehicle Class" \notin file.columns
     THEN /\ FailKey("Vehicle Class")
          /\ UNCHANGED vehicle_classes
     ELSE LET unique_classes == unique([k \in DOMAIN df |-> df[k].vclass])
          IN /\ vehicle_classes' = to_sql_append(vehicle_classes,
                  [k \in DOMAIN unique_classes |-> VehicleClassRow(unique_classes[k])])
             /\ pc' = "PREPARE_ENTRIES"
             /\ UNCHANGED failCause
  /\ UNCHANGED << dialect, entry_points_tbl, congestion_entries, daily_aggregates,
                  prog, file, locals, runs, aggBefore, aggOutcome, prevRun, response, entries_responses >>
  /\ UNCHANGED reported
  /\ Finally

-----------------------------------------------------------------------------
(* Fact rows *)

Entry(ts, ep, vc, n, x, p) ==
  [timestamp |-> ts, entry_point_id |-> ep, vehicle_class_id |-> vc,
   entry_count |-> n, excluded_count |-> x, time_period |-> p]

\* load_data, step 7: is the row of the batch kept
Recognized(row) ==
  row.region \in DOMAIN entry_point_map /\ row.vclass \in DOMAIN vehicle_class_map

\* load_data, step 7: the CongestionEntry built from one kept row
LoaderEntry(row) ==
  Entry(row.datetime, entry_point_map[row.region], vehicle_class_map[row.vclass],
        row.entries, row.excluded, row.period)

\* the rollback that leaves the rows of the failed transaction in the table
rollback_KeepsPending(committed, pending) == committed \o pending

\* session.rollback() / the rollback of the to_sql transaction: the pending
\* rows are discarded
rollback(committed, pending) == committed

\* every row of the batch is counted, kept or not
count_entries_Batch(n, batch_df, kept) == n + Len(batch_df)

\* entries_added += 1 for every row of the batch that is kept
count_entries(n, batch_df, kept) == n + Len(kept)

\* load_data, step 7, one iteration of the batch loop: the kept rows of the
\* batch are added and counted, then committed and the count is printed.
\* ok = FALSE: the commit raises, the session is rolled back and the run
\* ends; only the error is printed.
LoaderBatchInsert(ok) ==
  /\ pc = "BATCH_INSERT"
  /\ prog = "load_data"
  /\ i < Len(df)
  /\ LET batch_df == SubSeq(df, i + 1, Min(i + batch_size, Len(df)))
         kept     == SelectSeq(batch_df, Recognized)
         added    == [k \in DOMAIN kept |-> LoaderEntry(kept[k])]
     IN /\ entries_added' = count_entries(entries_added, batch_df, kept)
        /\ IF ok
           THEN /\ congestion_entries' = congestion_entries \o added
                /\ i' = i + batch_size
                /\ pc' = IF i + batch_size < Len(df) THEN "BATCH_INSERT" ELSE "DONE"
                /\ reported' = <<entries_added'>>
                /\ UNCHANGED failCause
           ELSE /\ Fail("StorageError")
                /\ congestion_entries' = rollback(congestion_entries, added)
                /\ UNCHANGED << i, reported >>
  /\ UNCHANGED << dialect, entry_points_tbl, vehicle_classes, daily_aggregates,
                  prog, file, df, entry_point_map, vehicle_class_map, entries_df,
                  runs, aggBefore, aggOutcome, prevRun, response, entries_responses >>
  /\ Finally

\* Series.map(dict): a value the dict does not hold maps to NaN
map_id(m, n) == IF n \in DOMAIN m THEN m[n] ELSE NULL

\* process_congestion_entries up to the insert loop: the two maps are read,
\* the rows with a known region are kept and given their ids; no row with a
\* known region: early return
PrepareEntries ==
  /\ pc = "PREPARE_ENTRIES"
  /\ prog = "run_etl_pipeline"
  /\ LET epm == NameToId(entry_points_tbl)
         vcm == NameToId(vehicle_classes)
         valid_df == SelectSeq(df, LAMBDA row : row.region \in DOMAIN epm)
     IN /\ entry_point_map' = epm
        /\ vehicle_class_map' = vcm
        /\ IF valid_df = <<>>
           THEN /\ pc' = "AGGREGATE_DELETE"
                /\ UNCHANGED << entries_df, failCause >>
           ELSE IF ~({"Vehicle Class", "Time Period"} \subseteq file.columns)
           THEN /\ FailKey(FirstMissing(<<"Vehicle Class", "Time Period">>, file.columns))
                /\ UNCHANGED entries_df
           ELSE /\ entries_df' =
                     [k \in DOMAIN valid_df |->
                        Entry(valid_df[k].datetime, epm[valid_df[k].region],
                              map_id(vcm, valid_df[k].vclass), valid_df[k].entries,
                              valid_df[k].excluded, valid_df[k].period)]
                /\ pc' = "BATCH_INSERT"
                /\ UNCHANGED failCause
  /\ i' = 0
  /\ UNCHANGED << dialect, tables, prog, file, df, entries_added, runs, aggBefore,
                  aggOutcome, prevRun, response, entries_responses >>
  /\ UNCHANGED reported
  /\ Finally

\* process_congestion_entries, one iteration of the chunk loop: to_sql
\* writes the chunk in a transaction of its own.  ok = FALSE: the storage
\* rejects it.  A chunk that holds a missing vehicle_class_id is rejected by
\* the NOT NULL column (always on sqlite; on mysql, notnull says whether the
\* server is strict or stores the row as it is).
EtlBatchInsert(ok, notnull) ==
  /\ pc = "BATCH_INSERT"
  /\ prog = "run_etl_pipeline"
  /\ i < Len(entries_df)
  /\ LET chunk == SubSeq(entries_df, i + 1, Min(i + chunk_size, Len(entries_df)))
         missing == \E k \in DOMAIN chunk : chunk[k].vehicle_class_id = NULL
     IN IF ~ok
        THEN /\ Fail("StorageError")
             /\ congestion_entries' = rollback(congestion_entries, chunk)
             /\ UNCHANGED i
        ELSE IF missing /\ (dialect = "sqlite" \/ notnull)
        THEN /\ Fail("IntegrityError")
             /\ congestion_entries' = rollback(congestion_entries, chunk)
             /\ UNCHANGED i
        ELSE /\ congestion_entries' = to_sql_append(congestion_entries, chunk)
             /\ i' = i + chunk_size
             /\ pc' = IF i + chunk_size < Len(entries_df)
                      THEN "BATCH_INSERT" ELSE "AGGREGATE_DELETE"
             /\ UNCHANGED failCause
  /\ UNCHANGED << dialect, entry_points_tbl, vehicle_classes, daily_aggregates,
                  prog, file, df, entry_point_map, vehicle_class_map, entries_df,
                  entries_added, runs, aggBefore, aggOutcome, prevRun, response, entries_responses >>
  /\ UNCHANGED reported
  /\ Finally

-----------------------------------------------------------------------------
(* Daily aggregates *)

RECURSIVE SumOver(_, _)
SumOver(S, f) ==
  IF S = {} THEN 0
  ELSE LET x == CHOOSE x \in S : TRUE IN f[x] + SumOver(S \ {x}, f)

\* PARTITION BY DATE(timestamp), HOUR(timestamp), entry_point_id, vehicle_class_id
HourKey(r) == <<DATE(r.timestamp), HOUR(r.timestamp), r.entry_point_id, r.vehicle_class_id>>

\* GROUP BY DATE(timestamp), entry_point_id, vehicle_class_id
GroupKey(r) == <<DATE(r.timestamp), r.entry_point_id, r.vehicle_class_id>>

\* the inner SELECT: every fact row with the sum of its hour partition
hourly(entries) ==
  [k \in DOMAIN entries |->
     [timestamp |-> entries[k].timestamp,
      entry_point_id |-> entries[k].entry_point_id,
      vehicle_class_id |-> entries[k].vehicle_class_id,
      entry_count |-> entries[k].entry_count,
      hourly_entries |->
        SumOver({j \in DOMAIN entries : HourKey(entries[j]) = HourKey(entries[k])},
                [j \in DOMAIN entries |-> entries[j].entry_count])]]

Groups(h) == {GroupKey(h[k]) : k \in DOMAIN h}

Members(h, g) == {k \in DOMAIN h : GroupKey(h[k]) = g}

\* the sum taken over the window column instead of entry_count
total_entries_OfHourly(h, g) ==
  SumOver(Members(h, g), [k \in DOMAIN h |-> h[k].hourly_entries])

\* SUM(entry_count) as total_entries
total_entries(h, g) == SumOver(Members(h, g), [k \in DOMAIN h |-> h[k].entry_count])

\* MAX(hourly_entries) as peak_hour_count
peak_hour_count(h, g) == SetMax({h[k].hourly_entries : k \in Members(h, g)})

\* HOUR(timestamp) as peak_hour is not aggregated and not grouped by: the
\* server takes it from any row of the group
peak_hour_choices(h, g) == {HOUR(h[k].timestamp) : k \in Members(h, g)}

\* the rows the INSERT ... SELECT writes, for one choice of the rows the
\* server reads peak_hour from
aggregate_sql(entries, pick) ==
  LET h == hourly(entries)
  IN {[date |-> g[1], entry_point_id |-> g[2], vehicle_class_id |-> g[3],
       total_entries |-> total_entries(h, g),
       peak_hour |-> pick[g],
       peak_hour_count |-> peak_hour_count(h, g)] : g \in Groups(h)}

Picks(entries) ==
  LET h == hourly(entries)
  IN {pick \in [Groups(h) -> {HOUR(h[k].timestamp) : k \in DOMAIN h}] :
        \A g \in Groups(h) : pick[g] \in peak_hour_choices(h, g)}

\* the DELETE that removes nothing
delete_from_Nothing(tbl) == tbl

\* DELETE FROM daily_aggregates
delete_from(tbl) == {}

\* generate_daily_aggregates, first half: DELETE and commit.  ok = FALSE:
\* the storage rejects it; the exception leaves generate_daily_aggregates.
AggregateDelete(ok) ==
  /\ pc = "AGGREGATE_DELETE"
  /\ aggBefore' = daily_aggregates
  /\ IF ok
     THEN /\ daily_aggregates' = delete_from(daily_aggregates)
          /\ pc' = "AGGREGATE_INSERT"
          /\ UNCHANGED << failCause, aggOutcome >>
     ELSE /\ Fail("StorageError")
          /\ aggOutcome' = "raised"
          /\ UNCHANGED daily_aggregates
  /\ UNCHANGED << dialect, entry_points_tbl, vehicle_classes, congestion_entries,
                  prog, file, locals, runs, prevRun, response, entries_responses >>
  /\ UNCHANGED reported
  /\ Finally

\* generate_daily_aggregates, second half: INSERT ... SELECT and commit.
\* sqlite has no HOUR function: the statement always raises there.  A raise
\* is caught, rolled back and logged; the function returns normally.
AggregateInsert(ok) ==
  /\ pc = "AGGREGATE_INSERT"
  /\ IF ok /\ dialect = "mysql"
     THEN /\ \E pick \in Picks(congestion_entries) :
               daily_aggregates' = daily_aggregates \cup aggregate_sql(congestion_entries, pick)
          /\ aggOutcome' = "written"
     ELSE /\ aggOutcome' = "failed"
          /\ UNCHANGED daily_aggregates
  /\ pc' = "DONE"
  /\ UNCHANGED << dialect, entry_points_tbl, vehicle_classes, congestion_entries,
                  prog, file, locals, failCause, runs, aggBefore, prevRun, response, entries_responses >>
  /\ UNCHANGED reported
  /\ Finally

-----------------------------------------------------------------------------
(* The heatmap projection *)

\* the values of the interval parameter that the handler documents
Granularities == {"hour", "30min", "15min"}

\* the width of an interval, in minutes
IntervalMinutes(interval) ==
  CASE interval = "hour"  -> 60
    [] interval = "30min" -> 30
    [] interval = "15min" -> 15

\* Series.dt.floor(interval)
floor(ts, interval) ==
  [ts EXCEPT !.minute = (ts.minute \div IntervalMinutes(interval)) * IntervalMinutes(interval)]

\* minutes since the start of day 0: the order of timestamps
TsKey(ts) == (toordinal(DATE(ts)) * 24 + ts.hour) * 60 + ts.minute

\* datetime.strptime(date_str, '%Y-%m-%d').date(): <<date>>, or <<>> when
\* it raises ValueError
strptime_date(s) ==
  IF /\ Len(s) = 10
     /\ SubSeq(s, 5, 5) = "-" /\ SubSeq(s, 8, 8) = "-"
     /\ IsDigits(SubSeq(s, 1, 4)) /\ IsDigits(SubSeq(s, 6, 7))
     /\ IsDigits(SubSeq(s, 9, 10))
  THEN LET y  == ParseNat(SubSeq(s, 1, 4))
           mo == ParseNat(SubSeq(s, 6, 7))
           d  == ParseNat(SubSeq(s, 9, 10))
       IN IF y >= 1 /\ mo \in 1..12 /\ d \in 1..DaysInMonth(y, mo)
          THEN << <<y, mo, d>> >> ELSE <<>>
  ELSE <<>>

\* the date parameters of the requests; "" is the parameter left out
DateParams == {"", "2025-03-28", "2025-03-29", "2025-03-30", "2025-02-30"}

\* sorted() of a set of timestamps
RECURSIVE sorted(_)
sorted(S) ==
  IF S = {} THEN <<>>
  ELSE LET m == CHOOSE x \in S : \A y \in S : TsKey(x) <= TsKey(y)
       IN <<m>> \o sorted(S \ {m})

CoordLe(a, b) == a[1] < b[1] \/ (a[1] = b[1] /\ a[2] <= b[2])

\* the order in which groupby returns the coordinate pairs of one interval
RECURSIVE sort_coords(_)
sort_coords(S) ==
  IF S = {} THEN <<>>
  ELSE LET m == CHOOSE x \in S : \A y \in S : CoordLe(x, y)
       IN <<m>> \o sort_coords(S \ {m})

\* the data frame built from the entries of the target date
HeatmapFrame(target_date) ==
  LET entries == SelectSeq(congestion_entries,
                           LAMBDA e : DATE(e.timestamp) = target_date)
  IN [k \in DOMAIN entries |->
        [timestamp   |-> entries[k].timestamp,
         latitude    |-> entry_points_tbl[entries[k].entry_point_id].latitude,
         longitude   |-> entry_points_tbl[entries[k].entry_point_id].longitude,
         entry_count |-> entries[k].entry_count]]

\* the rows of one (interval, latitude, longitude) group
GroupRows(frame, interval, t, c) ==
  {k \in DOMAIN frame : /\ floor(frame[k].timestamp, interval) = t
                        /\ <<frame[k].latitude, frame[k].longitude>> = c}

\* the group aggregated by its number of rows
groupby_sum_Count(frame, interval, t, c) == Cardinality(GroupRows(frame, interval, t, c))

\* groupby(['interval', 'latitude', 'longitude'])['entry_count'].sum()
groupby_sum(frame, interval, t, c) ==
  SumOver(GroupRows(frame, interval, t, c), [k \in DOMAIN frame |-> frame[k].entry_count])

\* the formatted answer for a target date that has entries; the dates and
\* timestamps are kept as values, isoformat() prints them
heatmap_data(target_date, interval) ==
  LET frame == HeatmapFrame(target_date)
      intervals == sorted({floor(frame[k].timestamp, interval) : k \in DOMAIN frame})
      points(t) ==
        LET coords == sort_coords({<<frame[k].latitude, frame[k].longitude>> :
                        k \in {j \in DOMAIN frame :
                                 floor(frame[j].timestamp, interval) = t}})
        IN [j \in DOMAIN coords |->
              <<coords[j][1], coords[j][2], groupby_sum(frame, interval, t, coords[j])>>]
  IN [status |-> 200, date |-> target_date, interval |-> interval,
      data |-> [k \in DOMAIN intervals |-> points(intervals[k])],
      intervals |-> intervals]

\* an answer that carries no projection
ErrorResponse(code) == [NoResponse EXCEPT !.status = code]

\* GET /congestion/heatmap-data.  The target date is the date parameter or
\* the date of the latest entry; no entry for it: 404.  A date parameter
\* that does not parse raises.  The interval goes to dt.floor as it is:
\* 'hour' is not an offset alias of every pandas release, accepts says
\* whether this one takes it or raises.  Requests are answered between
\* runs, and one request is followed per pause: the handler keeps no state,
\* a second request is answered as if it were the first.
get_heatmap_data(date_str, interval, accepts) ==
  /\ pc \in {"START", "DONE", "FAILED"}
  /\ response = NoResponse
  /\ response' =
       IF date_str # "" /\ strptime_date(date_str) = <<>> THEN ErrorResponse(500)
       ELSE IF date_str = "" /\ congestion_entries = <<>> THEN ErrorResponse(404)
       ELSE LET latest == CHOOSE k \in DOMAIN congestion_entries :
                            \A j \in DOMAIN congestion_entries :
                              TsKey(congestion_entries[j].timestamp)
                                <= TsKey(congestion_entries[k].timestamp)
                target_date == IF date_str # "" THEN strptime_date(date_str)[1]
                               ELSE DATE(congestion_entries[latest].timestamp)
            IN IF HeatmapFrame(target_date) = <<>> THEN ErrorResponse(404)
               ELSE IF interval = "hour" /\ ~accepts THEN ErrorResponse(500)
               ELSE heatmap_data(target_date, interval)
  /\ UNCHANGED << dialect, tables, pc, prog, file, locals, failCause, runs,
                  aggBefore, aggOutcome, prevRun, reported, session,
                  entries_responses >>

-----------------------------------------------------------------------------
(* GET /congestion/entries *)

\* [int(x) for x in s.split(',')] on a list of numbers
RECURSIVE split_ids(_)
split_ids(s) ==
  IF \E k \in 1..Len(s) : SubSeq(s, k, k) = ","
  THEN LET c == CHOOSE k \in 1..Len(s) :
                  /\ SubSeq(s, k, k) = ","
                  /\ \A j \in 1..(k - 1) : SubSeq(s, j, j) # ","
       IN <<ParseNat(SubSeq(s, 1, c - 1))>> \o split_ids(SubSeq(s, c + 1, Len(s)))
  ELSE <<ParseNat(s)>>

\* the query string: "" and <<>> are parameters left out
Request(sd, ed, sh, eh, eps, vcs, tp, lim, pg) ==
  [start_date |-> sd, end_date |-> ed, start_hour |-> sh, end_hour |-> eh,
   entry_points |-> eps, vehicle_classes |-> vcs, time_period |-> tp,
   limit |-> lim, page |-> pg]

\* the filters of the requests
Filters ==
  { Request("", "", <<>>, <<>>, "", "", "", <<>>, 1),
    Request("2025-03-29", "2025-03-29", <<>>, <<>>, "", "", "", <<>>, 1),
    Request("", "", <<8>>, <<8>>, "", "", "", <<>>, 1),
    Request("", "", <<>>, <<>>, "1,16", "", "", <<>>, 1),
    Request("", "", <<>>, <<>>, "", "1", "AM", <<>>, 1) }

\* the limits of the requests: none, and one above the cap
Limits == {<<>>, <<limit_cap + 2>>}

Pages == {1, 2}

Requests ==
  {[f EXCEPT !.limit = lim, !.page = pg] : f \in Filters, lim \in Limits, pg \in Pages}

\* datetime.strptime(s, '%Y-%m-%d') as minutes, the day's midnight
strptime_midnight(s) == toordinal(strptime_date(s)[1]) * 24 * 60

\* timestamp <= strptime(end_date) + timedelta(days=1)
end_filter(ts, end_date) ==
  TsKey(ts) <= strptime_midnight(end_date) + 24 * 60

\* the chain of query.filter(): the ids of the facts the query selects
filter(req) ==
  {k \in DOMAIN congestion_entries :
     LET e == congestion_entries[k]
     IN /\ req.start_date # "" => TsKey(e.timestamp) >= strptime_midnight(req.start_date)
        /\ req.end_date # "" => end_filter(e.timestamp, req.end_date)
        /\ req.start_hour # <<>> => e.timestamp.hour >= req.start_hour[1]
        /\ req.end_hour # <<>> => e.timestamp.hour <= req.end_hour[1]
        /\ req.entry_points # "" => e.entry_point_id \in Range(split_ids(req.entry_points))
        /\ req.vehicle_classes # "" =>
             e.vehicle_class_id \in Range(split_ids(req.vehicle_classes))
        /\ req.time_period # "" => e.time_period = req.time_period}

\* the orders in which the server returns rows of equal timestamp: ORDER BY
\* names the timestamp alone
TieOrders == {"insertion", "reverse"}

\* SQLite answers every page with the same plan, a walk of the index on
\* timestamp, which keeps equal timestamps in the order of their ids; the
\* MySQL optimizer chooses index or filesort per statement, LIMIT and OFFSET
\* included, and returns equal timestamps in either order
TieOrdersOf(d) == IF d = "mysql" THEN TieOrders ELSE {"insertion"}

TieBefore(a, b, ties) == IF ties = "insertion" THEN a <= b ELSE a >= b

RowBefore(a, b, ties) ==
  LET ta == TsKey(congestion_entries[a].timestamp)
      tb == TsKey(congestion_entries[b].timestamp)
  IN ta < tb \/ (ta = tb /\ TieBefore(a, b, ties))

\* query.order_by(CongestionEntry.timestamp)
RECURSIVE order_by(_, _)
order_by(ids, ties) ==
  IF ids = {} THEN <<>>
  ELSE LET m == CHOOSE a \in ids : \A b \in ids : RowBefore(a, b, ties)
       IN <<m>> \o order_by(ids \ {m}, ties)

\* limit(per_page).offset((page - 1) * per_page)
page_items(rows, page, per_page) ==
  SubSeq(rows, (page - 1) * per_page + 1, Min(page * per_page, Len(rows)))

\* datetime.isoformat()
isoformat(ts) ==
  LET two(n) == IF n < 10 THEN "0" \o ToString(n) ELSE ToString(n)
  IN ToString(ts.year) \o "-" \o two(ts.month) \o "-" \o two(ts.day) \o "T"
       \o two(ts.hour) \o ":" \o two(ts.minute) \o ":00"

\* one element of 'entries'
EntryJson(k) ==
  LET e == congestion_entries[k]
  IN [id |-> k, timestamp |-> isoformat(e.timestamp),
      entry_point_id |-> e.entry_point_id,
      entry_point_name |-> entry_points_tbl[e.entry_point_id].name,
      vehicle_class_id |-> e.vehicle_class_id,
      vehicle_class_name |-> vehicle_classes[e.vehicle_class_id].name,
      entry_count |-> e.entry_count, excluded_count |-> e.excluded_count,
      time_period |-> e.time_period]

\* query.paginate(page, per_page, error_out=False) and the JSON built from
\* it; a row without its dimension row raises AttributeError on .name
paginate(req, ties) ==
  LET per_page == Min(IF req.limit = <<>> THEN default_limit ELSE req.limit[1], limit_cap)
      rows     == order_by(filter(req), ties)
      items    == page_items(rows, req.page, per_page)
      total    == Len(rows)
  IN IF \E k \in Range(items) :
          \/ congestion_entries[k].entry_point_id \notin DOMAIN entry_points_tbl
          \/ congestion_entries[k].vehicle_class_id \notin DOMAIN vehicle_classes
     THEN [status |-> 500, request |-> req, entries |-> <<>>, total |-> 0,
           pages |-> 0, page |-> req.page]
     ELSE [status |-> 200, request |-> req,
           entries |-> [n \in DOMAIN items |-> EntryJson(items[n])],
           total |-> total,
           pages |-> (total + per_page - 1) \div per_page,
           page |-> req.page]

\* One request.  The handler keeps no state; the model follows a client
\* that asks for page 1 and then for page 2 of the same query, between runs.
get_congestion_entries(req, ties) ==
  /\ pc \in {"START", "DONE", "FAILED"}
  /\ ties \in TieOrdersOf(dialect)
  /\ \/ entries_responses = <<>>
     \/ /\ Len(entries_responses) = 1
        /\ entries_responses[1].request = [req EXCEPT !.page = 1]
        /\ req.page = 2
  /\ entries_responses' = Append(entries_responses, paginate(req, ties))
  /\ UNCHANGED << dialect, tables, pc, prog, file, locals, failCause, runs,
                  aggBefore, aggOutcome, prevRun, response, reported, session >>

-----------------------------------------------------------------------------
(* Specification *)

Next ==
  \/ \E p \in Programs, f \in Files : StartRun(p, f)
  \/ LoadRaw
  \/ LoaderNormalize
  \/ preprocess_data
  \/ \E ok \in BOOLEAN : LoaderResolveRefs(ok)
  \/ \E ok \in BOOLEAN : populate_entry_points(ok)
  \/ \E ok \in BOOLEAN : populate_vehicle_classes(ok)
  \/ \E ok \in BOOLEAN : LoaderBatchInsert(ok)
  \/ PrepareEntries
  \/ \E ok \in BOOLEAN, notnull \in BOOLEAN : EtlBatchInsert(ok, notnull)
  \/ \E ok \in BOOLEAN : AggregateDelete(ok)
  \/ \E ok \in BOOLEAN : AggregateInsert(ok)

Spec == Init /\ [][Next]_vars

\* a step of a run that has started
RunStep ==
  \/ LoadRaw
  \/ LoaderNormalize
  \/ preprocess_data
  \/ \E ok \in BOOLEAN : LoaderResolveRefs(ok)
  \/ \E ok \in BOOLEAN : populate_entry_points(ok)
  \/ \E ok \in BOOLEAN : populate_vehicle_classes(ok)
  \/ \E ok \in BOOLEAN : LoaderBatchInsert(ok)
  \/ PrepareEntries
  \/ \E ok \in BOOLEAN, notnull \in BOOLEAN : EtlBatchInsert(ok, notnull)
  \/ \E ok \in BOOLEAN : AggregateDelete(ok)
  \/ \E ok \in BOOLEAN : AggregateInsert(ok)

\* both programs are sequential: a run that has started goes on to its
\* next statement; whether another run is started is up to the operator
SpecLive == Spec /\ WF_vars(RunStep)

\* the files whose rows reach the fact table
LoadableFiles == {FileScenario, FileMixed, FileTrucks}

\* the loaders on the files that fill the fact table, and the API that
\* reads it
NextApi ==
  \/ \E p \in Programs, f \in LoadableFiles : StartRun(p, f)
  \/ LoadRaw
  \/ LoaderNormalize
  \/ preprocess_data
  \/ \E ok \in BOOLEAN : LoaderResolveRefs(ok)
  \/ \E ok \in BOOLEAN : populate_entry_points(ok)
  \/ \E ok \in BOOLEAN : populate_vehicle_classes(ok)
  \/ \E ok \in BOOLEAN : LoaderBatchInsert(ok)
  \/ PrepareEntries
  \/ \E ok \in BOOLEAN, notnull \in BOOLEAN : EtlBatchInsert(ok, notnull)
  \/ \E ok \in BOOLEAN : AggregateDelete(ok)
  \/ \E ok \in BOOLEAN : AggregateInsert(ok)
  \/ \E date_str \in DateParams, interval \in Granularities :
       \E accepts \in (IF interval = "hour" THEN BOOLEAN ELSE {TRUE}) :
         get_heatmap_data(date_str, interval, accepts)

SpecApi == Init /\ [][NextApi]_vars

\* the loaders on the files that fill the fact table, and the entries query
NextEntries ==
  \/ \E p \in Programs, f \in LoadableFiles : StartRun(p, f)
  \/ LoadRaw
  \/ LoaderNormalize
  \/ preprocess_data
  \/ \E ok \in BOOLEAN : LoaderResolveRefs(ok)
  \/ \E ok \in BOOLEAN : populate_entry_points(ok)
  \/ \E ok \in BOOLEAN : populate_vehicle_classes(ok)
  \/ \E ok \in BOOLEAN : LoaderBatchInsert(ok)
  \/ PrepareEntries
  \/ \E ok \in BOOLEAN, notnull \in BOOLEAN : EtlBatchInsert(ok, notnull)
  \/ \E ok \in BOOLEAN : AggregateDelete(ok)
  \/ \E ok \in BOOLEAN : AggregateInsert(ok)
  \/ \E req \in Requests, ties \in TieOrders : get_congestion_entries(req, ties)

SpecEntries == Init /\ [][NextEntries]_vars

-----------------------------------------------------------------------------
(* Properties of the aggregates *)

KeyOf(a) == <<a.date, a.entry_point_id, a.vehicle_class_id>>

\* the fact rows of one (date, entry_point_id, vehicle_class_id) key
FactsOf(key) == {k \in DOMAIN congestion_entries : GroupKey(congestion_entries[k]) = key}

EntryCounts == [k \in DOMAIN congestion_entries |-> congestion_entries[k].entry_count]

\* the sum of entry_count of one key in one hour of day
HourSum(key, hr) ==
  SumOver({k \in FactsOf(key) : HOUR(congestion_entries[k].timestamp) = hr}, EntryCounts)

HoursOf(key) == {HOUR(congestion_entries[k].timestamp) : k \in FactsOf(key)}

MaxHourSum(key) == SetMax({HourSum(key, hr) : hr \in HoursOf(key)})

\* the smallest hour whose sum is maximal
ArgMaxHour(key) ==
  CHOOSE hr \in HoursOf(key) :
    /\ HourSum(key, hr) = MaxHourSum(key)
    /\ \A o \in HoursOf(key) : HourSum(key, o) = MaxHourSum(key) => hr <= o

\* the recomputation of this run wrote its rows and no fact was written since
AggregatesFresh == pc = "DONE" /\ aggOutcome = "written"

\* C1: after a recomputation that wrote its rows, and before any further
\* fact is written, total_entries of every aggregate row is the sum of
\* entry_count of the fact rows of its key.
C1_TotalEntriesIsKeySum ==
  AggregatesFresh =>
    \A a \in daily_aggregates : a.total_entries = SumOver(FactsOf(KeyOf(a)), EntryCounts)

\* an aggregate row that sums several fact rows has been written
C1_Witness ==
  /\ AggregatesFresh
  /\ \E a \in daily_aggregates :
       Cardinality(FactsOf(KeyOf(a))) >= 2 /\ a.total_entries > 0

\* C2: peak_hour of every written aggregate row is the hour of day with the
\* largest summed entry_count of its key, the smallest such hour on a tie.
C2_PeakHourIsArgMax ==
  AggregatesFresh =>
    \A a \in daily_aggregates : a.peak_hour = ArgMaxHour(KeyOf(a))

\* C3: peak_hour_count of every written aggregate row is the largest
\* per-hour sum of its key, and it is the sum of the hour in peak_hour.
C3_PeakHourCount ==
  AggregatesFresh =>
    \A a \in daily_aggregates :
      /\ a.peak_hour_count = MaxHourSum(KeyOf(a))
      /\ a.peak_hour_count = HourSum(KeyOf(a), a.peak_hour)

\* C4: a recomputation that fails after it started leaves the aggregate
\* table as it was when the recomputation began.
C4_FailedRecomputeKeepsOld ==
  aggOutcome \in {"failed", "raised"} => daily_aggregates = aggBefore

-----------------------------------------------------------------------------
(* Properties of reruns *)

\* this run and the previous one ran the same program on the same file and
\* both completed
SecondRunDone ==
  /\ pc = "DONE" /\ prevRun.pc = "DONE"
  /\ prog = prevRun.prog /\ file = prevRun.file

\* C5: a second full pipeline run on the same file leaves the aggregate set
\* of the first run.
C5_RerunSameAggregates ==
  ( /\ SecondRunDone /\ prog = "run_etl_pipeline"
    /\ aggOutcome = "written" /\ prevRun.aggOutcome = "written" )
  => daily_aggregates = prevRun.daily_aggregates

\* C6: a second loader run on a file that is already loaded adds no fact row.
C6_RerunAddsNoFacts ==
  SecondRunDone => congestion_entries = prevRun.congestion_entries

-----------------------------------------------------------------------------
(* Properties of the reference data *)

NoDuplicateNames(tbl) ==
  \A j, k \in DOMAIN tbl : tbl[j].name = tbl[k].name => j = k

\* the upsert step of the current run has completed
UpsertDone ==
  pc \in {"BATCH_INSERT", "PREPARE_ENTRIES", "AGGREGATE_DELETE", "AGGREGATE_INSERT", "DONE"}

\* C7: the upserter run again by the same program on the same input leaves
\* both dimension tables as the first run left them, and no two rows of a
\* dimension table ever share a name.
C7_UpsertIdempotent ==
  /\ NoDuplicateNames(entry_points_tbl)
  /\ NoDuplicateNames(vehicle_classes)
  /\ ( UpsertDone /\ prevRun.pc = "DONE" /\ prog = prevRun.prog /\ file = prevRun.file )
     => /\ entry_points_tbl = prevRun.entry_points_tbl
        /\ vehicle_classes = prevRun.vehicle_classes

\* the upserter has run a second time on the input of a completed first run
\* that filled both tables
C7_Witness ==
  /\ UpsertDone /\ prevRun.pc = "DONE" /\ prog = prevRun.prog /\ file = prevRun.file
  /\ Len(prevRun.entry_points_tbl) = Len(entry_point_names)
  /\ Len(prevRun.vehicle_classes) >= 2

\* C8: after the upsert step every alias name is an EntryPoint and every
\* distinct vehicle class of the current input is a VehicleClass.
C8_UpsertCompletes ==
  UpsertDone =>
    /\ \A k \in DOMAIN entry_point_names : HasName(entry_points_tbl, entry_point_names[k])
    /\ \A k \in DOMAIN df : HasName(vehicle_classes, df[k].vclass)

\* C9: every fact row references an existing EntryPoint and an existing
\* VehicleClass.
C9_ReferentialIntegrity ==
  \A k \in DOMAIN congestion_entries :
    /\ congestion_entries[k].entry_point_id \in DOMAIN entry_points_tbl
    /\ congestion_entries[k].vehicle_class_id \in DOMAIN vehicle_classes

\* the rows of the file with a parseable timestamp and count and a location
\* label of the alias table
ValidRows(f) ==
  SelectSeq(f.rows, LAMBDA r : Parseable(r) /\ strip(r.region) \in DOMAIN entry_points)

\* C10: a run fails only for a missing file, a missing column or a storage
\* failure, never for the content of a row, and a run that is done has
\* committed every valid row of its file.
C10_RowErrorsNeverFail ==
  /\ pc = "FAILED" => failCause.type \in {"FileNotFoundError", "KeyError", "StorageError"}
  /\ pc = "DONE" =>
       Len(congestion_entries) - Len(prevRun.congestion_entries) = Len(ValidRows(file))

-----------------------------------------------------------------------------
(* Batches *)

\* the fact rows written since the run began
NewFacts ==
  SubSeq(congestion_entries, Len(prevRun.congestion_entries) + 1, Len(congestion_entries))

\* the fact rows that batch k of the current run holds
RunBatch(k) ==
  IF prog = "load_data"
  THEN LET batch_df == SubSeq(df, (k - 1) * batch_size + 1, Min(k * batch_size, Len(df)))
           kept     == SelectSeq(batch_df, Recognized)
       IN [j \in DOMAIN kept |-> LoaderEntry(kept[j])]
  ELSE SubSeq(entries_df, (k - 1) * chunk_size + 1, Min(k * chunk_size, Len(entries_df)))

RECURSIVE BatchesUpTo(_)
BatchesUpTo(n) == IF n = 0 THEN <<>> ELSE BatchesUpTo(n - 1) \o RunBatch(n)

\* the number of batches the loop has passed
BatchesPassed == IF prog = "load_data" THEN i \div batch_size ELSE i \div chunk_size

\* C11: in every state the fact rows written by the run are exactly the
\* surviving rows of the batches the loop has passed, each batch whole: a
\* batch is in the table with all of its rows or with none, and after a
\* failure in batch k the rows of batches 1..k-1 are there and no other.
C11_BatchesAtomic ==
  runs >= 1 => NewFacts = BatchesUpTo(BatchesPassed)

\* a commit was rejected in a later batch that had rows to write, after an
\* earlier batch had written its rows
C11_Witness ==
  /\ pc = "FAILED"
  /\ failCause.type = "StorageError"
  /\ BatchesPassed >= 1
  /\ NewFacts # <<>>
  /\ RunBatch(BatchesPassed + 1) # <<>>

\* C12: when the storage rejects the commit of a batch, the loader goes on
\* with the batches that follow: the step that meets the rejection does not
\* end the run.
C12_RejectedBatchIsSkipped ==
  [][(pc = "BATCH_INSERT" /\ failCause'.type = "StorageError") => pc' # "FAILED"]_vars

\* C13: a run that is DONE has recomputed the aggregates after its last
\* batch, and has written fact rows only with the entry points in place.
C13_DoneAfterAggregate ==
  (runs >= 1 /\ pc = "DONE") =>
    /\ aggOutcome \in {"written", "failed"}
    /\ NewFacts # <<>> => Len(entry_points_tbl) > 0

\* C14: a run on a missing file, or on a file that lacks a required column,
\* never completes and leaves the four tables as they were before the run.
C14_FatalInputLeavesTables ==
  (runs >= 1 /\ (~file.exists \/ ~(LoaderRequired \subseteq file.columns))) =>
    /\ pc # "DONE"
    /\ entry_points_tbl = prevRun.entry_points_tbl
    /\ vehicle_classes = prevRun.vehicle_classes
    /\ congestion_entries = prevRun.congestion_entries
    /\ daily_aggregates = prevRun.daily_aggregates

\* the stages that follow normalisation; df holds the normalised rows
AfterNormalize ==
  {"RESOLVE_REFS", "POPULATE_ENTRY_POINTS", "POPULATE_VEHICLE_CLASSES",
   "PREPARE_ENTRIES", "BATCH_INSERT", "AGGREGATE_DELETE", "AGGREGATE_INSERT", "DONE"}

\* C15: the excluded-count column never ends the run, and every row whose
\* timestamp and entry count parse is kept, with excluded_count = 0 when the
\* column is absent or the cell does not parse.
C15_ExcludedNeverRejects ==
  /\ ~(pc = "FAILED" /\ failCause.type = "KeyError"
         /\ failCause.key = "Excluded Roadway Entries")
  /\ pc \in AfterNormalize =>
       LET kept == SelectSeq(file.rows, Parseable)
       IN /\ Len(df) = Len(kept)
          /\ \A k \in DOMAIN kept :
               ("Excluded Roadway Entries" \notin file.columns
                  \/ to_numeric(kept[k].excluded) = <<>>) => df[k].excluded = 0

pad2(n) == IF n < 10 THEN "0" \o ToString(n) ELSE ToString(n)

\* the text "YYYY-MM-DD HH:MM" of a timestamp
strftime(ts) ==
  ToString(ts.year) \o "-" \o pad2(ts.month) \o "-" \o pad2(ts.day) \o " "
    \o pad2(ts.hour) \o ":" \o pad2(ts.minute)

\* the decimal text of an integer
itoa(n) == IF n < 0 THEN "-" \o ToString(0 - n) ELSE ToString(n)

\* the raw row r spells the timestamp ts and the count n
Denotes(r, ts, n) == r.block = strftime(ts) /\ r.entries = itoa(n)

\* C16: every normalised row, and every fact row the run writes, carries the
\* timestamp and the entry count that some raw row of the file spells out; a
\* row whose timestamp or entry count is no such text yields no row, no fact
\* and, through the facts, no aggregate.
C16_MalformedRowsRejected ==
  /\ pc \in AfterNormalize =>
       \A k \in DOMAIN df :
         \E r \in Range(file.rows) : Denotes(r, df[k].datetime, df[k].entries)
  /\ runs >= 1 =>
       \A k \in DOMAIN NewFacts :
         \E r \in Range(file.rows) :
           Denotes(r, NewFacts[k].timestamp, NewFacts[k].entry_count)
  /\ AggregatesFresh => \A a \in daily_aggregates : FactsOf(KeyOf(a)) # {}

\* a file with a bad timestamp and a bad count has been loaded to the end
\* and has yielded fact rows
C16_Witness ==
  /\ pc = "DONE"
  /\ \E r \in Range(file.rows) : to_datetime(r.block) = <<>>
  /\ \E r \in Range(file.rows) : to_datetime(r.block) # <<>> /\ to_numeric(r.entries) = <<>>
  /\ NewFacts # <<>>

\* C17: every stored fact row has entry_count >= 0 and excluded_count >= 0.
C17_CountsNonNegative ==
  \A k \in DOMAIN congestion_entries :
    congestion_entries[k].entry_count >= 0 /\ congestion_entries[k].excluded_count >= 0

Blanks == {"", " ", "  ", "   "}

\* the raw label is the alias n with blanks around it
ResolvesTo(raw, n) == \E a \in Blanks, b \in Blanks : raw = a \o n \o b

Resolves(raw) == \E n \in Range(entry_point_names) : ResolvesTo(raw, n)

\* the names of the entry points the rows of a completed run must be
\* attached to, in file order
ExpectedNames ==
  LET rows == SelectSeq(file.rows, LAMBDA r : Parseable(r) /\ Resolves(r.region))
  IN [k \in DOMAIN rows |->
        CHOOSE n \in Range(entry_point_names) : ResolvesTo(rows[k].region, n)]

\* C18: when a run is DONE, the fact rows it wrote are, in file order, one
\* per row whose label is an alias with blanks around it, each attached to
\* the entry point of that name; a label that differs from every alias
\* (in case, or otherwise) yields no fact row.
C18_LabelResolution ==
  (runs >= 1 /\ pc = "DONE") =>
    [k \in DOMAIN NewFacts |-> entry_points_tbl[NewFacts[k].entry_point_id].name]
      = ExpectedNames

\* a padded label was attached to its entry point and a label in the wrong
\* case was left out
C18_Witness ==
  /\ pc = "DONE"
  /\ \E r \in Range(file.rows) :
       Parseable(r) /\ r.region \notin Range(entry_point_names) /\ Resolves(r.region)
  /\ \E r \in Range(file.rows) : Parseable(r) /\ r.region = "lincoln tunnel"
  /\ NewFacts # <<>>
  /\ Len(NewFacts) < Len(SelectSeq(file.rows, Parseable))

\* C19: the table holds at most one aggregate row per key, and after a
\* recomputation that wrote its rows the keys of the table are exactly the
\* keys of the fact rows.
C19_OneAggregatePerKey ==
  /\ \A a \in daily_aggregates, b \in daily_aggregates : KeyOf(a) = KeyOf(b) => a = b
  /\ AggregatesFresh =>
       {KeyOf(a) : a \in daily_aggregates}
         = {GroupKey(congestion_entries[k]) : k \in DOMAIN congestion_entries}

\* a second recomputation replaced the rows of the first by other rows
C19_Witness ==
  /\ AggregatesFresh
  /\ prevRun.daily_aggregates # {}
  /\ daily_aggregates # prevRun.daily_aggregates
  /\ Cardinality(daily_aggregates) >= 2

-----------------------------------------------------------------------------
(* Heatmap *)

\* the fact rows of the date the answer is for
DayFacts == {k \in DOMAIN congestion_entries :
               DATE(congestion_entries[k].timestamp) = response.date}

\* the fact rows of that date that fall in the interval beginning at t and
\* belong to an entry point at the coordinate pair c
SampleFacts(t, c) ==
  {k \in DayFacts :
     /\ TsKey(t) <= TsKey(congestion_entries[k].timestamp)
     /\ TsKey(congestion_entries[k].timestamp) < TsKey(t) + IntervalMinutes(response.interval)
     /\ entry_points_tbl[congestion_entries[k].entry_point_id].latitude = c[1]
     /\ entry_points_tbl[congestion_entries[k].entry_point_id].longitude = c[2]}

-----------------------------------------------------------------------------
(* Derived fields *)

SundayFirst == <<"Sunday", "Monday", "Tuesday", "Wednesday", "Thursday", "Friday",
                 "Saturday">>

MonthOffsets == <<0, 3, 2, 5, 0, 3, 5, 1, 4, 6, 2, 4>>

\* the weekday of a calendar date <<y, m, d>>, by the month-offset rule
Weekday(d) ==
  LET y == IF d[2] < 3 THEN d[1] - 1 ELSE d[1]
  IN SundayFirst[((y + (y \div 4) - (y \div 100) + (y \div 400)
                     + MonthOffsets[d[2]] + d[3]) % 7) + 1]

\* C21: every row that preprocess_data keeps carries the date and the hour
\* (0..23) that its raw timestamp text spells and the weekday of that date,
\* rows of one timestamp carry the same derived values, and deriving date,
\* hour and weekday again from the timestamp of a fact row the run wrote
\* gives the values of its normalised row.
C21_DerivedFieldsRoundTrip ==
  (prog = "run_etl_pipeline" /\ pc \in AfterNormalize) =>
    /\ \A k \in DOMAIN df :
         /\ df[k].hour \in 0..23
         /\ \E r \in Range(file.rows) :
              r.block = strftime([year |-> df[k].date[1], month |-> df[k].date[2],
                                  day |-> df[k].date[3], hour |-> df[k].hour,
                                  minute |-> df[k].datetime.minute])
         /\ df[k].day_of_week = Weekday(df[k].date)
    /\ \A k \in DOMAIN NewFacts :
         \E j \in DOMAIN df :
           /\ df[j].datetime = NewFacts[k].timestamp
           /\ df[j].date = DATE(NewFacts[k].timestamp)
           /\ df[j].hour = HOUR(NewFacts[k].timestamp)
           /\ df[j].day_of_week = day_name(NewFacts[k].timestamp)

\* the row of "2025-03-29 08:10" was normalised to hour 8 of a Saturday and
\* written as a fact row
C21_Witness ==
  /\ prog = "run_etl_pipeline"
  /\ pc = "DONE"
  /\ \E j \in DOMAIN df : \E k \in DOMAIN NewFacts :
       /\ strftime(df[j].datetime) = "2025-03-29 08:10"
       /\ df[j].hour = 8
       /\ df[j].day_of_week = "Saturday"
       /\ NewFacts[k].timestamp = df[j].datetime

-----------------------------------------------------------------------------
(* Frame conditions *)

\* C22: a step of the batch-insert stage writes no dimension row, and a row
\* whose vehicle class the snapshot does not hold is skipped: the step does
\* not fail on it and writes no fact row without a vehicle class for it.
C22_SnapshotRowsSkipped ==
  [][pc = "BATCH_INSERT" =>
       /\ entry_points_tbl' = entry_points_tbl
       /\ vehicle_classes' = vehicle_classes
       /\ failCause'.type # "IntegrityError"
       /\ \A k \in DOMAIN congestion_entries' :
            k > Len(congestion_entries) =>
              congestion_entries'[k].vehicle_class_id \in Range(vehicle_class_map)]_vars

\* s is the beginning of t: every row of s is in t, with its id and fields
IsPrefix(s, t) == Len(s) <= Len(t) /\ SubSeq(t, 1, Len(s)) = s

C24_FactsOnlyGrow ==
  [][IsPrefix(congestion_entries, congestion_entries')]_vars

\* facts of an earlier run are in the table after a later run wrote more,
\* recomputed the aggregates or was rolled back
C24_Witness ==
  /\ runs >= 2
  /\ pc \in {"DONE", "FAILED"}
  /\ Len(prevRun.congestion_entries) > 0
  /\ Len(congestion_entries) > Len(prevRun.congestion_entries)
  /\ IsPrefix(prevRun.congestion_entries, congestion_entries)

-----------------------------------------------------------------------------
(* Reporting *)

\* C25: a count of entries added that load_data has printed is the number of
\* fact rows the run has committed, rows of a rolled-back batch not counted;
\* at the end of a completed run the rows read are the rows committed, the
\* rows rejected by the normalisation and the rows skipped for their label.
C25_ReportedCountIsCommitted ==
  (prog = "load_data" /\ reported # <<>>) =>
    /\ reported[1] = Len(NewFacts)
    /\ pc = "DONE" =>
         Len(file.rows) =
           reported[1]
           + Len(SelectSeq(file.rows, LAMBDA r : ~Parseable(r)))
           + Len(SelectSeq(file.rows, LAMBDA r : Parseable(r) /\ ~Resolves(r.region)))

\* a batch was committed and its count printed, the next batch was counted,
\* rejected and rolled back
C25_Witness ==
  /\ prog = "load_data"
  /\ pc = "FAILED"
  /\ reported # <<>>
  /\ reported[1] > 0
  /\ entries_added > reported[1]

\* C26: run_etl_pipeline completes only when the recomputation wrote the
\* new aggregate rows; a recomputation that fails ends the run in FAILED.
C26_AggregateFailureSurfaced ==
  (prog = "run_etl_pipeline" /\ pc = "DONE") => aggOutcome = "written"

-----------------------------------------------------------------------------
(* Termination *)

\* the number of iterations a loop over n rows in steps of size makes
Iterations(n, size) == (n + size - 1) \div size

\* C27: a run that has started ends in DONE or FAILED; every iteration of
\* the batch loop that does not fail moves on by one batch, and the loop
\* is left after ceil(rows / batch size) iterations; when the run has
\* ended the session is closed and holds no uncommitted row.
C27_RunsTerminate ==
  /\ (pc \notin {"START", "DONE", "FAILED"}) ~> (pc \in {"DONE", "FAILED"})
  /\ [][(pc = "BATCH_INSERT" /\ pc' # "FAILED") =>
          i' = i + (IF prog = "load_data" THEN batch_size ELSE chunk_size)]_vars
  /\ []((pc = "DONE" /\ prog = "load_data") =>
          i = Iterations(Len(df), batch_size) * batch_size)
  /\ []((pc = "DONE" /\ prog = "run_etl_pipeline") =>
          i = Iterations(Len(entries_df), chunk_size) * chunk_size)
  /\ []((pc \in {"DONE", "FAILED"}) => (~session.open /\ session.pending = 0))

\* a run of several batches has ended and its session is closed
C27_Witness ==
  /\ pc = "DONE"
  /\ i >= 2 * batch_size
  /\ Len(NewFacts) > batch_size
  /\ ~session.open

-----------------------------------------------------------------------------
(* Properties of the entries query *)

\* the calendar date of a returned entry, read back from its text
DateOfJson(e) == strptime_date(SubSeq(e.timestamp, 1, 10))[1]

\* the facts a request asks for: the date range taken by calendar days
Asked(req) ==
  {k \in DOMAIN congestion_entries :
     LET e == congestion_entries[k]
     IN /\ req.start_date # "" =>
             toordinal(DATE(e.timestamp)) >= toordinal(strptime_date(req.start_date)[1])
        /\ req.end_date # "" =>
             toordinal(DATE(e.timestamp)) <= toordinal(strptime_date(req.end_date)[1])
        /\ req.start_hour # <<>> => e.timestamp.hour >= req.start_hour[1]
        /\ req.end_hour # <<>> => e.timestamp.hour <= req.end_hour[1]
        /\ req.entry_points # "" => e.entry_point_id \in Range(split_ids(req.entry_points))
        /\ req.vehicle_classes # "" =>
             e.vehicle_class_id \in Range(split_ids(req.vehicle_classes))
        /\ req.time_period # "" => e.time_period = req.time_period}

IdsOf(r) == {r.entries[n].id : n \in DOMAIN r.entries}

\* C28: an answered entries query with start_date S and end_date E returns
\* only facts whose calendar date lies in [S, E] and that pass the other
\* filters, and reports their number as total; a fact stamped at 00:00 of
\* the day after E is not returned
C28_DateRangeByCalendarDay ==
  \A n \in DOMAIN entries_responses :
    LET r == entries_responses[n]
    IN r.status = 200 =>
         /\ IdsOf(r) \subseteq Asked(r.request)
         /\ r.total = Cardinality(Asked(r.request))
         /\ r.request.end_date # "" =>
              \A m \in DOMAIN r.entries :
                toordinal(DateOfJson(r.entries[m]))
                  <= toordinal(strptime_date(r.request.end_date)[1])

\* C29: an answered entries query returns at most the cap of rows in one
\* page, in the order of their timestamps, and reports the size of the
\* filtered result as total; page 1 and page 2 of one query share no row,
\* and when the query has at most two pages they hold the whole result
C29_PagesPartitionResult ==
  /\ \A n \in DOMAIN entries_responses :
       LET r == entries_responses[n]
       IN r.status = 200 =>
            /\ Len(r.entries) <= limit_cap
            /\ \A a, b \in DOMAIN r.entries :
                 a < b => TsKey(congestion_entries[r.entries[a].id].timestamp)
                            <= TsKey(congestion_entries[r.entries[b].id].timestamp)
            /\ r.total = Cardinality(filter(r.request))
            /\ IdsOf(r) \subseteq filter(r.request)
  /\ (Len(entries_responses) = 2
        /\ entries_responses[1].status = 200 /\ entries_responses[2].status = 200) =>
       LET r1 == entries_responses[1]
           r2 == entries_responses[2]
       IN /\ IdsOf(r1) \cap IdsOf(r2) = {}
          /\ r1.pages <= 2 => IdsOf(r1) \cup IdsOf(r2) = filter(r1.request)

====
